---- MODULE Spec2Model ----
(***************************************************************************)
(* Derivative bar accumulator of tardis-machine (DerivativeBarComputable). *)
(*                                                                         *)
(* The accumulator is a JavaScript object holding one mutable in-progress  *)
(* bar.  compute(message) is a generator: it runs up to a yield, hands the *)
(* bar to its consumer, and runs on when the consumer asks for the next    *)
(* value.  The model keeps a heap of bar objects (so that a clone and an   *)
(* alias differ), the generator's position, and a history of what was fed  *)
(* and what was emitted.                                                   *)
(* The factory can make a second accumulator with the same options; the   *)
(* host then feeds the two in any interleaving (SpecAccumulators).         *)
(*                                                                         *)
(* JavaScript values: a field of type `number | undefined` is a sequence   *)
(* of length at most one (<<>> is undefined, <<v>> is the number v); a     *)
(* Date is its valueOf() in milliseconds.                                  *)
(***************************************************************************)
EXTENDS Integers, Sequences, FiniteSets

VARIABLES
  kind,       \* this._kind
  interval,   \* this._interval
  name,       \* this._name
  heap,       \* the bar objects allocated so far; heap[r] is the object r
  pc,         \* position of the running compute generator, "idle" when none
  events,     \* history: every message passed to compute, in order
  emitted,    \* history: the reference of every bar yielded, in order
  emittedAt,  \* history: emittedAt[i] is the index in events of the call that yielded emitted[i]
  snapshots,  \* history: the in-progress bar's fields when emitted[i] was produced
  other       \* the second accumulator the factory made, while the host is not feeding it

vars == <<kind, interval, name, heap, pc, events, emitted, emittedAt, snapshots, other>>

----------------------------------------------------------------------------
(* Bounds of the model. *)

MaxTime == 2
MaxQuote == 1
MaxInterval == 2
MaxCalls == 3
\* calls of compute in all, when the factory makes two accumulators
MaxShared == 2

Times == 0..MaxTime
Quotes == 0..MaxQuote
\* interval is never validated by the constructor: zero and negative values are accepted
Intervals == -1..MaxInterval
BarKinds == {"time", "volume", "tick"}

----------------------------------------------------------------------------
(* JavaScript values. *)

Undefined == << >>

Some(v) == <<v>>

\* x ?? d
Nullish(x, d) == IF x = Undefined THEN d ELSE x[1]

\* new Date(-1)
DATE_MIN == -1

BAR_TYPE == "derivative_bar"

kindSuffix == [tick |-> "ticks", time |-> "ms", volume |-> "vol"]

\* new Date(NaN)
InvalidDate == <<"Invalid Date">>

----------------------------------------------------------------------------
(* Messages.  A derivative ticker of quote q carries open interest q       *)
(* and prices tagged by field; quote 0 carries no optional field at all.   *)

Optional(q, base) == IF q = 0 THEN Undefined ELSE Some(base + q)

DerivativeTicker(t, q) ==
  [type |-> "derivative_ticker", symbol |-> "XBTUSD", exchange |-> "bitmex",
   timestamp |-> t, localTimestamp |-> t + 1,
   lastPrice |-> Optional(q, 100),
   openInterest |-> Optional(q, 0),
   fundingRate |-> Optional(q, 200),
   indexPrice |-> Optional(q, 300),
   markPrice |-> Optional(q, 400),
   predictedFundingRate |-> Optional(q, 500)]

BookChange(t) ==
  [type |-> "book_change", symbol |-> "XBTUSD", exchange |-> "bitmex",
   timestamp |-> t, localTimestamp |-> t + 1]

Messages ==
  {DerivativeTicker(t, q) : t \in Times, q \in Quotes} \cup {BookChange(t) : t \in Times}

----------------------------------------------------------------------------
(* The accumulator. *)

\* this._inProgressBar: the one object the constructor allocates
inProgressBar == 1

\* {} as any: every property reads undefined
EmptyObject ==
  [type |-> Undefined, symbol |-> Undefined, exchange |-> Undefined, name |-> Undefined,
   interval |-> Undefined, kind |-> Undefined,
   openLastPrice |-> Undefined, openOi |-> Undefined, openFundingRate |-> Undefined,
   openIndexPrice |-> Undefined, openMarkPrice |-> Undefined, openTimestamp |-> Undefined,
   closeLastPrice |-> Undefined, closeOi |-> Undefined, closeFundingRate |-> Undefined,
   closeIndexPrice |-> Undefined, closeMarkPrice |-> Undefined, closeTimestamp |-> Undefined,
   deltaOi |-> Undefined, predictedFundingRate |-> Undefined, ticks |-> Undefined,
   fundingTimestamp |-> Undefined, timestamp |-> Undefined, localTimestamp |-> Undefined]

\* the default name, `${type}_${interval}${kindSuffix[kind]}`, as its three parts
defaultName(k, i) == <<BAR_TYPE, i, kindSuffix[k]>>

\* mutant: _reset forgets deltaOi
resetKeepsDeltaOi(h) ==
  [h EXCEPT ![inProgressBar] = [@ EXCEPT
     !.type = BAR_TYPE, !.symbol = "", !.exchange = "", !.name = name,
     !.interval = interval, !.kind = kind,
     !.openLastPrice = Some(0), !.openOi = Undefined, !.openFundingRate = Undefined,
     !.openIndexPrice = Undefined, !.openMarkPrice = Undefined, !.openTimestamp = DATE_MIN,
     !.closeLastPrice = Undefined, !.closeOi = Undefined, !.closeFundingRate = Undefined,
     !.closeIndexPrice = Undefined, !.closeMarkPrice = Undefined, !.closeTimestamp = DATE_MIN,
     !.predictedFundingRate = Undefined, !.ticks = 0,
     !.timestamp = DATE_MIN]]

\* _reset assigns every field of the bar object but localTimestamp and fundingTimestamp
_reset(h) ==
  [h EXCEPT ![inProgressBar] = [@ EXCEPT
     !.type = BAR_TYPE, !.symbol = "", !.exchange = "", !.name = name,
     !.interval = interval, !.kind = kind,
     !.openLastPrice = Some(0), !.openOi = Undefined, !.openFundingRate = Undefined,
     !.openIndexPrice = Undefined, !.openMarkPrice = Undefined, !.openTimestamp = DATE_MIN,
     !.closeLastPrice = Undefined, !.closeOi = Undefined, !.closeFundingRate = Undefined,
     !.closeIndexPrice = Undefined, !.closeMarkPrice = Undefined, !.closeTimestamp = DATE_MIN,
     !.deltaOi = 0, !.predictedFundingRate = Undefined, !.ticks = 0,
     !.timestamp = DATE_MIN]]

----------------------------------------------------------------------------
(* JavaScript numbers that _getTimeBucket can produce: a division by an    *)
(* interval of 0 gives Infinity, -Infinity or NaN.                         *)

Finite(v) == [k |-> "finite", v |-> v]
Infinity == [k |-> "Infinity", v |-> 0]
NegInfinity == [k |-> "-Infinity", v |-> 0]
NaN == [k |-> "NaN", v |-> 0]

\* mutant: the comparison of the buckets is >= instead of >
JsGreaterOrEqual(a, b) ==
  IF a.k = "finite" /\ b.k = "finite" THEN a.v >= b.v ELSE FALSE

\* a > b on JavaScript numbers
JsGreater(a, b) ==
  CASE a.k = "NaN" \/ b.k = "NaN" -> FALSE
    [] a.k = "Infinity" -> b.k # "Infinity"
    [] a.k = "-Infinity" -> FALSE
    [] b.k = "Infinity" -> FALSE
    [] b.k = "-Infinity" -> TRUE
    [] OTHER -> a.v > b.v

\* mutant: the bar is stamped with the start of its bucket instead of the end
BucketStart(bucket, i) ==
  IF bucket.k = "finite" THEN bucket.v * i ELSE InvalidDate

\* new Date((bucket + 1) * i).valueOf()
BucketEnd(bucket, i) ==
  IF bucket.k = "finite" THEN (bucket.v + 1) * i ELSE InvalidDate

\* Math.floor(timestamp.valueOf() / this._interval)
_getTimeBucket(timestamp, i) ==
  IF i > 0 THEN Finite(timestamp \div i)
  ELSE IF i < 0 THEN Finite((0 - timestamp) \div (0 - i))
  ELSE IF timestamp > 0 THEN Infinity
  ELSE IF timestamp < 0 THEN NegInfinity
  ELSE NaN

\* the first three statements of _computeBar: the closing message's identity is stamped on the bar
Stamp(h, msg) ==
  [h EXCEPT ![inProgressBar] = [@ EXCEPT
     !.localTimestamp = Some(msg.localTimestamp),
     !.symbol = msg.symbol,
     !.exchange = msg.exchange]]

\* mutant: no copy is made, the bar handed out is the in-progress object itself
SpreadAlias(h, obj) == [ret |-> obj, heap |-> h]

\* { ...obj }: a new object with obj's own properties; ret is its reference
Spread(h, obj) == [ret |-> Len(h) + 1, heap |-> Append(h, h[obj])]

\* mutant: the tick count survives the emission (the reset leaves ticks as it was)
computeBarKeepsTicks(h, msg) ==
  LET derivativeBar == Spread(Stamp(h, msg), inProgressBar)
  IN  [ret |-> derivativeBar.ret,
       heap |-> [_reset(derivativeBar.heap) EXCEPT
                   ![inProgressBar].ticks = h[inProgressBar].ticks]]

_computeBar(h, msg) ==
  LET derivativeBar == Spread(Stamp(h, msg), inProgressBar)
  IN  [ret |-> derivativeBar.ret, heap |-> _reset(derivativeBar.heap)]

\* mutant: the time branch answers true and leaves the bar's timestamp as the last tick set it
TimeHasNewBarKeepsTimestamp(h, timestamp) ==
  [ret |-> JsGreater(_getTimeBucket(timestamp, interval),
                     _getTimeBucket(h[inProgressBar].openTimestamp, interval)),
   heap |-> h]

\* mutant: the time branch notes the time of every message it tests on the bar
TimeHasNewBarTracksTime(h, timestamp) ==
  LET currentTimestampTimeBucket == _getTimeBucket(timestamp, interval)
      openTimestampTimeBucket == _getTimeBucket(h[inProgressBar].openTimestamp, interval)
  IN  IF JsGreater(currentTimestampTimeBucket, openTimestampTimeBucket)
      THEN [ret |-> TRUE,
            heap |-> [h EXCEPT ![inProgressBar].timestamp =
                                 BucketEnd(openTimestampTimeBucket, interval)]]
      ELSE [ret |-> FALSE, heap |-> [h EXCEPT ![inProgressBar].timestamp = timestamp]]

\* the time branch of _hasNewBar, which sets the bar's timestamp when it answers true
TimeHasNewBar(h, timestamp) ==
  LET currentTimestampTimeBucket == _getTimeBucket(timestamp, interval)
      openTimestampTimeBucket == _getTimeBucket(h[inProgressBar].openTimestamp, interval)
  IN  IF JsGreater(currentTimestampTimeBucket, openTimestampTimeBucket)
      THEN [ret |-> TRUE,
            heap |-> [h EXCEPT ![inProgressBar].timestamp =
                                 BucketEnd(openTimestampTimeBucket, interval)]]
      ELSE [ret |-> FALSE, heap |-> h]

\* mutant: the tick threshold is tested with > instead of >=
hasNewBarTickOffByOne(h, timestamp) ==
  IF h[inProgressBar].ticks = 0 THEN [ret |-> FALSE, heap |-> h]
  ELSE IF kind = "time" THEN TimeHasNewBar(h, timestamp)
  ELSE IF kind = "volume" THEN [ret |-> h[inProgressBar].deltaOi >= interval, heap |-> h]
  ELSE IF kind = "tick" THEN [ret |-> h[inProgressBar].ticks > interval, heap |-> h]
  ELSE [ret |-> FALSE, heap |-> h]

\* mutant: the volume threshold is tested on the size of the change, whatever its sign
hasNewBarAbsoluteDelta(h, timestamp) ==
  IF h[inProgressBar].ticks = 0 THEN [ret |-> FALSE, heap |-> h]
  ELSE IF kind = "time" THEN TimeHasNewBar(h, timestamp)
  ELSE IF kind = "volume"
  THEN [ret |-> \/ h[inProgressBar].deltaOi >= interval
                \/ 0 - h[inProgressBar].deltaOi >= interval,
        heap |-> h]
  ELSE IF kind = "tick" THEN [ret |-> h[inProgressBar].ticks >= interval, heap |-> h]
  ELSE [ret |-> FALSE, heap |-> h]

\* mutant: the test for a bar that is not open (ticks === 0) is missing
hasNewBarUnguarded(h, timestamp) ==
  IF kind = "time" THEN TimeHasNewBar(h, timestamp)
  ELSE IF kind = "volume" THEN [ret |-> h[inProgressBar].deltaOi >= interval, heap |-> h]
  ELSE IF kind = "tick" THEN [ret |-> h[inProgressBar].ticks >= interval, heap |-> h]
  ELSE [ret |-> FALSE, heap |-> h]

_hasNewBar(h, timestamp) ==
  IF h[inProgressBar].ticks = 0 THEN [ret |-> FALSE, heap |-> h]
  ELSE IF kind = "time" THEN TimeHasNewBar(h, timestamp)
  ELSE IF kind = "volume" THEN [ret |-> h[inProgressBar].deltaOi >= interval, heap |-> h]
  ELSE IF kind = "tick" THEN [ret |-> h[inProgressBar].ticks >= interval, heap |-> h]
  ELSE [ret |-> FALSE, heap |-> h]

\* mutant: every tick overwrites the open* fields
UpdateOpenEveryTick(bar, derivativeTicker) ==
  [bar EXCEPT
     !.openLastPrice = derivativeTicker.lastPrice,
     !.openOi = derivativeTicker.openInterest,
     !.openFundingRate = derivativeTicker.fundingRate,
     !.openIndexPrice = derivativeTicker.indexPrice,
     !.openMarkPrice = derivativeTicker.markPrice,
     !.openTimestamp = derivativeTicker.timestamp]

\* the open* fields are captured by the first tick folded since the reset
UpdateOpen(bar, derivativeTicker) ==
  IF bar.ticks = 0
  THEN [bar EXCEPT
          !.openLastPrice = derivativeTicker.lastPrice,
          !.openOi = derivativeTicker.openInterest,
          !.openFundingRate = derivativeTicker.fundingRate,
          !.openIndexPrice = derivativeTicker.indexPrice,
          !.openMarkPrice = derivativeTicker.markPrice,
          !.openTimestamp = derivativeTicker.timestamp]
  ELSE bar

UpdateClose(bar, derivativeTicker) ==
  [bar EXCEPT
     !.closeLastPrice = derivativeTicker.lastPrice,
     !.closeOi = derivativeTicker.openInterest,
     !.closeFundingRate = derivativeTicker.fundingRate,
     !.closeIndexPrice = derivativeTicker.indexPrice,
     !.closeMarkPrice = derivativeTicker.markPrice,
     !.closeTimestamp = derivativeTicker.timestamp]

\* mutant: the change of open interest is taken from close to open
UpdateCountersDeltaReversed(bar, derivativeTicker) ==
  [bar EXCEPT
     !.deltaOi = Nullish(bar.openOi, 0) - Nullish(bar.closeOi, 0),
     !.predictedFundingRate = derivativeTicker.predictedFundingRate,
     !.ticks = @ + 1,
     !.timestamp = derivativeTicker.timestamp]

\* mutant: the tick is folded without being counted
UpdateCountersNoTick(bar, derivativeTicker) ==
  [bar EXCEPT
     !.deltaOi = Nullish(bar.closeOi, 0) - Nullish(bar.openOi, 0),
     !.predictedFundingRate = derivativeTicker.predictedFundingRate,
     !.timestamp = derivativeTicker.timestamp]

UpdateCounters(bar, derivativeTicker) ==
  [bar EXCEPT
     !.deltaOi = Nullish(bar.closeOi, 0) - Nullish(bar.openOi, 0),
     !.predictedFundingRate = derivativeTicker.predictedFundingRate,
     !.ticks = @ + 1,
     !.timestamp = derivativeTicker.timestamp]

_update(h, derivativeTicker) ==
  [h EXCEPT ![inProgressBar] =
     UpdateCounters(UpdateClose(UpdateOpen(@, derivativeTicker), derivativeTicker),
                    derivativeTicker)]

----------------------------------------------------------------------------
(* compute(message), a generator.  A segment runs from the call, or from   *)
(* the yield it was suspended at, to the next yield or to the return.  It  *)
(* answers the position reached, the heap, the references yielded (none or *)
(* one) and the heap on which _computeBar was called.                      *)

Returned(h) == [pc |-> "idle", heap |-> h, yield |-> << >>, at |-> h]

Yielded(position, h, msg) ==
  LET bar == _computeBar(h, msg)
  IN  [pc |-> position, heap |-> bar.heap, yield |-> <<bar.ret>>, at |-> h]

\* mutant: the test after the update is made on the bar as it was before the update, so a bar
\* that reached its threshold is closed only by the next call
ComputeUpdateLateTest(h, msg) ==
  IF msg.type # "derivative_ticker" THEN Returned(h)
  ELSE LET check == _hasNewBar(h, msg.timestamp)
       IN  IF check.ret THEN Yielded("yield2", _update(check.heap, msg), msg)
           ELSE Returned(_update(check.heap, msg))

\* from the type test to the second yield or the return
ComputeUpdate(h, msg) ==
  IF msg.type # "derivative_ticker" THEN Returned(h)
  ELSE LET check == _hasNewBar(_update(h, msg), msg.timestamp)
       IN  IF check.ret THEN Yielded("yield2", check.heap, msg) ELSE Returned(check.heap)

\* mutant: a message that is no derivative ticker returns before the first test
ComputeStartTicksOnly(h, msg) ==
  IF msg.type # "derivative_ticker" THEN Returned(h)
  ELSE LET check == _hasNewBar(h, msg.timestamp)
       IN  IF check.ret THEN Yielded("yield1", check.heap, msg)
           ELSE ComputeUpdate(check.heap, msg)

\* mutant: a derivative ticker is folded before any test is made
ComputeStartFoldsFirst(h, msg) ==
  IF msg.type = "derivative_ticker" THEN ComputeUpdate(h, msg)
  ELSE LET check == _hasNewBar(h, msg.timestamp)
       IN  IF check.ret THEN Yielded("yield1", check.heap, msg)
           ELSE ComputeUpdate(check.heap, msg)

\* from the call to the first yield, or on to the rest when the first test fails
ComputeStart(h, msg) ==
  LET check == _hasNewBar(h, msg.timestamp)
  IN  IF check.ret THEN Yielded("yield1", check.heap, msg) ELSE ComputeUpdate(check.heap, msg)

\* from a yield on
ComputeResume(position, h, msg) ==
  IF position = "yield1" THEN ComputeUpdate(h, msg) ELSE Returned(h)

----------------------------------------------------------------------------
(* The state machine. *)

\* the message of the current (or the last) compute call
message == events[Len(events)]

\* what the in-progress bar of heap h holds when msg makes _computeBar emit it
Emission(h, msg) == Stamp(h, msg)[inProgressBar]

\* new DerivativeBarComputable({ kind, interval, name }), with name an optional string
Constructor(k, i, n) ==
  /\ kind = k
  /\ interval = i
  /\ name = (IF n = Undefined THEN defaultName(k, i) ELSE n[1])
  /\ heap = _reset(<<EmptyObject>>)

Init ==
  /\ \E k \in BarKinds, i \in Intervals : Constructor(k, i, Undefined)
  /\ pc = "idle"
  /\ events = << >>
  /\ emitted = << >>
  /\ emittedAt = << >>
  /\ snapshots = << >>
  /\ other = Undefined

Record(step, msg, call) ==
  /\ heap' = step.heap
  /\ pc' = step.pc
  /\ emitted' = emitted \o step.yield
  /\ emittedAt' = (IF step.yield = << >> THEN emittedAt ELSE Append(emittedAt, call))
  /\ snapshots' = (IF step.yield = << >> THEN snapshots
                   ELSE Append(snapshots, Emission(step.at, msg)))
  /\ UNCHANGED <<kind, interval, name, other>>

\* the host calls compute(msg) and asks for its first value
Compute(msg) ==
  /\ pc = "idle"
  /\ Len(events) < MaxCalls
  /\ events' = Append(events, msg)
  /\ Record(ComputeStart(heap, msg), msg, Len(events) + 1)

\* the host asks the suspended generator for its next value
Resume ==
  /\ pc # "idle"
  /\ events' = events
  /\ Record(ComputeResume(pc, heap, message), message, Len(events))

Next ==
  \/ \E msg \in Messages : Compute(msg)
  \/ Resume

Spec == Init /\ [][Next]_vars

FairSpec == Spec /\ WF_vars(Resume) /\ WF_vars(\E msg \in Messages : Compute(msg))

\* mutant: the factory hands out the one instance it made first
computeDerivativeBarsShared(h) == h

\* computeDerivativeBars(options)(): new DerivativeBarComputable(options); h is
\* the heap of the accumulator that exists already, which `new` does not touch
computeDerivativeBars(h) == _reset(<<EmptyObject>>)

\* the accumulator the host is feeding, with the history of what it was fed
Accumulator ==
  [heap |-> heap, pc |-> pc, events |-> events, emitted |-> emitted,
   emittedAt |-> emittedAt, snapshots |-> snapshots]

\* the host calls the factory again, for a second stream with the same options
NewAccumulator ==
  /\ other = Undefined
  /\ Len(events) < MaxShared
  /\ other' = Some(Accumulator)
  /\ heap' = computeDerivativeBars(heap)
  /\ pc' = "idle"
  /\ events' = << >>
  /\ emitted' = << >>
  /\ emittedAt' = << >>
  /\ snapshots' = << >>
  /\ UNCHANGED <<kind, interval, name>>

\* the host turns to the other stream and its accumulator
Switch ==
  /\ other # Undefined
  /\ other' = Some(Accumulator)
  /\ heap' = other[1].heap
  /\ pc' = other[1].pc
  /\ events' = other[1].events
  /\ emitted' = other[1].emitted
  /\ emittedAt' = other[1].emittedAt
  /\ snapshots' = other[1].snapshots
  /\ UNCHANGED <<kind, interval, name>>

\* the messages fed so far to the accumulator the host is not feeding now
OtherCalls == IF other = Undefined THEN 0 ELSE Len(other[1].events)

\* compute(msg) on the accumulator the host is feeding now
ComputeShared(msg) ==
  /\ Len(events) + OtherCalls < MaxShared
  /\ Compute(msg)

NextAccumulators ==
  \/ \E msg \in Messages : ComputeShared(msg)
  \/ Resume
  \/ NewAccumulator
  \/ Switch

\* two accumulators of one factory, fed in any interleaving
SpecAccumulators == Init /\ [][NextAccumulators]_vars

----------------------------------------------------------------------------
(* Vocabulary of the properties. *)

\* the live in-progress bar
InProgress == heap[inProgressBar]

\* the i-th emitted bar, as the consumer holding its reference sees it now
Bar(i) == heap[emitted[i]]

\* the message whose compute call emitted the i-th bar
Trigger(i) == events[emittedAt[i]]

IsTick(msg) == msg.type = "derivative_ticker"

IsHeartbeat(msg) == msg.type = "book_change"

\* the events were fed in non-decreasing timestamp order
Ordered == \A j \in 1..(Len(events) - 1) : events[j].timestamp <= events[j + 1].timestamp

\* floor(t / i) on the integers, for i # 0
Floor(t, i) == IF i > 0 THEN t \div i ELSE (0 - t) \div (0 - i)

Min(S) == CHOOSE x \in S : \A y \in S : x <= y

Max(S) == CHOOSE x \in S : \A y \in S : x >= y

\* the calls among lo..hi that fed a DerivativeTick
TickCalls(lo, hi) == {j \in lo..hi : IsTick(events[j])}

\* the bars emitted during call c
BarsOfCall(c) == {i \in 1..Len(emitted) : emittedAt[i] = c}

\* time kind: a bar is closed before its trigger is folded, so the ticks of the i-th bar are
\* those fed from the call that emitted the bar before it up to the call before its own
TimeFolded(i) == TickCalls(IF i = 1 THEN 1 ELSE emittedAt[i - 1], emittedAt[i] - 1)

\* time kind: the ticks folded into the bar in progress
TimeFoldedNow ==
  TickCalls(IF emitted = << >> THEN 1 ELSE emittedAt[Len(emitted)], Len(events))

\* volume and tick kinds: a bar is closed by the tick that completes it, so the ticks of the
\* i-th bar are those fed after the call that emitted the bar before it up to its own call
CountFolded(i) == TickCalls(IF i = 1 THEN 1 ELSE emittedAt[i - 1] + 1, emittedAt[i])

\* volume and tick kinds: the ticks folded into the bar in progress
CountFoldedNow ==
  TickCalls(IF emitted = << >> THEN 1 ELSE emittedAt[Len(emitted)] + 1, Len(events))

\* the ticks folded into the i-th bar
Folded(i) == IF kind = "time" THEN TimeFolded(i) ELSE CountFolded(i)

\* the ticks folded into the bar in progress; none while a bar closed by the first test is
\* handed out, the message of that call being folded after it
FoldedNow ==
  IF pc = "yield1" THEN {}
  ELSE IF kind = "time" THEN TimeFoldedNow
  ELSE CountFoldedNow

----------------------------------------------------------------------------
(* C1: for an interval > 0 and every kind, every emitted bar has           *)
(* ticks >= 1, and an accumulator fed only heartbeats has emitted nothing. *)

C1_NoEmptyBar ==
  interval > 0 =>
    /\ \A i \in 1..Len(emitted) : snapshots[i].ticks >= 1 /\ Bar(i).ticks >= 1
    /\ (\A j \in 1..Len(events) : IsHeartbeat(events[j])) => emitted = << >>

\* a heartbeat fed to the empty accumulator emitted nothing, although time had passed; the first
\* bar came two calls later
C1_Witness ==
  /\ interval > 0
  /\ Len(events) = 3
  /\ IsHeartbeat(events[1]) /\ events[1].timestamp > 0
  /\ Len(emitted) = 1 /\ emittedAt[1] = 3

(* C2: time kind: an emitted bar's timestamp is                            *)
(* (floor(openTimestamp / interval) + 1) * interval, with openTimestamp    *)
(* the timestamp of the first tick folded into the bar, whatever the       *)
(* timestamp of the event that triggered the emission.                     *)

C2_TimeBarTimestamp ==
  (kind = "time" /\ interval # 0) =>
    \A i \in 1..Len(emitted) :
      /\ TimeFolded(i) # {}
      /\ Bar(i).openTimestamp = events[Min(TimeFolded(i))].timestamp
      /\ Bar(i).timestamp = (Floor(Bar(i).openTimestamp, interval) + 1) * interval

\* a bar closed by an event two buckets after its own: its timestamp is not the event's
C2_Witness ==
  /\ kind = "time" /\ interval > 0
  /\ Len(emitted) >= 1
  /\ Floor(Trigger(1).timestamp, interval) >= Floor(Bar(1).openTimestamp, interval) + 2
  /\ Bar(1).timestamp # Trigger(1).timestamp

(* C3: time kind, events in non-decreasing timestamp order: a bar opened   *)
(* in bucket b is emitted during the compute call of the first later event *)
(* (tick or heartbeat) whose bucket is greater than b, and in no earlier   *)
(* call.                                                                   *)

C3_EmittedOnFirstLaterBucket ==
  (kind = "time" /\ interval # 0 /\ Ordered) =>
    /\ \A i \in 1..Len(emitted) :
         LET b == Floor(Bar(i).openTimestamp, interval)
         IN  /\ Floor(Trigger(i).timestamp, interval) > b
             /\ \A j \in Min(TimeFolded(i))..(emittedAt[i] - 1) :
                  Floor(events[j].timestamp, interval) <= b
    /\ InProgress.ticks > 0 =>
         \A j \in Min(TimeFoldedNow)..Len(events) :
           Floor(events[j].timestamp, interval) <= Floor(InProgress.openTimestamp, interval)

\* a tick in bucket 0 and then a heartbeat in a later bucket: the heartbeat's call emitted the
\* bar, stamped with the end of bucket 0
C3_Witness ==
  /\ kind = "time" /\ interval > 0 /\ Ordered
  /\ Len(events) = 2 /\ IsTick(events[1]) /\ IsHeartbeat(events[2])
  /\ Floor(events[1].timestamp, interval) = 0
  /\ Len(emitted) = 1 /\ emittedAt[1] = 2 /\ Bar(1).timestamp = interval

(* C4: time kind, events in non-decreasing timestamp order: the buckets of *)
(* successive bars strictly increase, a call closes at most the one bar    *)
(* that was open, and every bar's bucket is one a tick was fed in.         *)

C4_BucketsIncreaseNoFabrication ==
  (kind = "time" /\ interval # 0 /\ Ordered) =>
    /\ \A i, j \in 1..Len(emitted) :
         i < j => Floor(Bar(i).openTimestamp, interval) < Floor(Bar(j).openTimestamp, interval)
    /\ \A c \in 1..Len(events) : Cardinality(BarsOfCall(c)) <= 1
    /\ \A i \in 1..Len(emitted) :
         /\ Bar(i).ticks >= 1
         /\ \E j \in 1..(emittedAt[i] - 1) :
              /\ IsTick(events[j])
              /\ (Floor(events[j].timestamp, interval) + 1) * interval = Bar(i).timestamp

\* a single heartbeat two buckets after the open bar's bucket closed that bar and nothing else
C4_Witness ==
  /\ kind = "time" /\ interval > 0 /\ Ordered
  /\ pc = "idle"
  /\ Len(events) = 2 /\ IsTick(events[1]) /\ IsHeartbeat(events[2])
  /\ Floor(events[2].timestamp, interval) = Floor(events[1].timestamp, interval) + 2
  /\ Len(emitted) = 1
  /\ InProgress.ticks = 0

(* C5: tick kind with interval > 0: every emitted bar has exactly interval *)
(* ticks and is emitted during the call of the tick that brings the count  *)
(* to interval; after n ticks, floor(n / interval) bars are emitted and    *)
(* the bar in progress holds n mod interval ticks.                         *)

C5_TickBarExactCount ==
  (kind = "tick" /\ interval > 0) =>
    LET n == Cardinality(TickCalls(1, Len(events)))
    IN  /\ Len(emitted) = n \div interval
        /\ InProgress.ticks = n % interval
        /\ \A i \in 1..Len(emitted) :
             /\ Bar(i).ticks = interval
             /\ IsTick(Trigger(i))
             /\ Cardinality(TickCalls(1, emittedAt[i])) = i * interval

\* interval 2 (or 3) and more ticks than one bar takes: one bar of interval ticks is out and
\* the rest is in progress
C5_Witness ==
  /\ kind = "tick" /\ interval >= 2
  /\ Len(emitted) = 1 /\ Bar(1).ticks = interval
  /\ InProgress.ticks = 1
  /\ Cardinality(TickCalls(1, Len(events))) = interval + 1

(* C6: volume kind with interval > 0: every emitted bar has                *)
(* deltaOi >= interval and is emitted during the call of the tick that     *)
(* first brings closeOi - openOi to interval or more; a tick whose open    *)
(* interest is not above the bar's open value closes no bar.               *)

C6_VolumeBarThreshold ==
  (kind = "volume" /\ interval > 0) =>
    /\ \A i \in 1..Len(emitted) :
         LET openOi == Nullish(events[Min(CountFolded(i))].openInterest, 0)
         IN  /\ Bar(i).deltaOi >= interval
             /\ IsTick(Trigger(i))
             /\ Nullish(Trigger(i).openInterest, 0) - openOi = Bar(i).deltaOi
             /\ Nullish(Trigger(i).openInterest, 0) > openOi
             /\ \A j \in CountFolded(i) \ {emittedAt[i]} :
                  Nullish(events[j].openInterest, 0) - openOi < interval
    /\ InProgress.ticks > 0 => InProgress.deltaOi < interval

\* a bar whose second tick carried an open interest not above its open value and closed
\* nothing, and whose third tick reached the threshold and closed it
C6_Witness ==
  /\ kind = "volume" /\ interval > 0
  /\ Len(emitted) = 1 /\ emittedAt[1] = 3
  /\ Bar(1).ticks = 3
  /\ Nullish(events[2].openInterest, 0) <= Nullish(Bar(1).openOi, 0)
  /\ Bar(1).deltaOi >= interval

(* C7: any kind, events fed in non-decreasing timestamp order: the         *)
(* timestamps of the emitted bars, in emission order, are non-decreasing.  *)

C7_BarTimestampsNonDecreasing ==
  Ordered =>
    \A i, j \in 1..Len(emitted) : i < j => Bar(i).timestamp <= Bar(j).timestamp

\* two bars with different timestamps out of ordered events
C7_Witness ==
  /\ Ordered
  /\ Len(emitted) >= 2
  /\ Bar(1).timestamp < Bar(2).timestamp

(* C8, as amended: a compute call yields no bar or one bar, never two.     *)
(* The test before the update fires only for time kind, the test after the *)
(* update only for volume and tick kinds.                                  *)

C8_AtMostOneBarPerCall ==
  /\ \A c \in 1..Len(events) : Cardinality(BarsOfCall(c)) <= 1
  /\ pc = "yield1" => kind = "time"
  /\ pc = "yield2" => kind \in {"volume", "tick"}

\* a volume or tick accumulator with an open bar below its threshold was fed one more tick,
\* which reached the threshold: the call yielded one bar holding both ticks
C8_Witness ==
  /\ kind \in {"volume", "tick"}
  /\ pc = "yield2"
  /\ Len(events) = 2
  /\ Cardinality(BarsOfCall(2)) = 1
  /\ Bar(1).ticks = 2

(* C8, as claimed: a call that yields two bars happens.                    *)

C8_TwoBarCallHappens ==
  <>(\E c \in 1..Len(events) : Cardinality(BarsOfCall(c)) = 2)

(* C9: right after a bar is produced, before the generator goes on with    *)
(* the triggering event, the in-progress bar is in its zero state.         *)

C9_ResetOnEmission ==
  pc # "idle" =>
    /\ InProgress.ticks = 0
    /\ InProgress.deltaOi = 0
    /\ InProgress.openTimestamp = DATE_MIN
    /\ InProgress.closeTimestamp = DATE_MIN
    /\ InProgress.timestamp = DATE_MIN
    /\ InProgress.openLastPrice = Some(0)
    /\ \A f \in {"openOi", "openFundingRate", "openIndexPrice", "openMarkPrice",
                 "closeLastPrice", "closeOi", "closeFundingRate", "closeIndexPrice",
                 "closeMarkPrice", "predictedFundingRate"} : InProgress[f] = Undefined
    /\ InProgress.symbol = "" /\ InProgress.exchange = ""

\* the generator is suspended at a yield, and the bar it handed out held a change of open
\* interest and prices
C9_Witness ==
  /\ pc # "idle"
  /\ Bar(Len(emitted)).deltaOi # 0
  /\ Bar(Len(emitted)).closeLastPrice # Undefined
  /\ Bar(Len(emitted)).ticks >= 2

(* C10: an emitted bar holds the values the in-progress bar had when it    *)
(* was emitted, and nothing the accumulator does later changes them.       *)

C10_EmittedBarIsSnapshot ==
  \A i \in 1..Len(emitted) :
    /\ emitted[i] # inProgressBar
    /\ \A j \in 1..Len(emitted) : i # j => emitted[i] # emitted[j]
    /\ Bar(i) = snapshots[i]

\* after a bar was emitted the accumulator was reset, updated and emitted again
C10_Witness ==
  /\ Len(emitted) >= 2
  /\ InProgress.ticks > 0
  /\ Bar(1) # Bar(2)
  /\ Bar(1).ticks >= 1

(* C11: time kind with interval > 0, events in non-decreasing timestamp    *)
(* order: every tick folded into a bar lies in the bucket of the bar's     *)
(* openTimestamp, timestamp - interval <= openTimestamp <= closeTimestamp  *)
(* < timestamp, and the windows [timestamp - interval, timestamp) of       *)
(* different bars are disjoint.                                            *)

C11_TimeBarsDoNotOverlap ==
  (kind = "time" /\ interval > 0 /\ Ordered) =>
    /\ \A i \in 1..Len(emitted) :
         /\ Bar(i).timestamp - interval <= Bar(i).openTimestamp
         /\ Bar(i).openTimestamp <= Bar(i).closeTimestamp
         /\ Bar(i).closeTimestamp < Bar(i).timestamp
         /\ \A j \in TimeFolded(i) :
              /\ Floor(events[j].timestamp, interval)
                   = Floor(Bar(i).openTimestamp, interval)
              /\ Bar(i).timestamp - interval <= events[j].timestamp
              /\ events[j].timestamp < Bar(i).timestamp
    /\ \A i, j \in 1..Len(emitted) :
         i < j => Bar(i).timestamp <= Bar(j).timestamp - interval

\* a bar of two ticks at different instants of one bucket, closed by a tick
\* of a later bucket
C11_Witness ==
  /\ kind = "time" /\ interval > 0 /\ Ordered
  /\ Len(emitted) = 1
  /\ Bar(1).ticks = 2
  /\ Bar(1).openTimestamp < Bar(1).closeTimestamp
  /\ InProgress.ticks = 1

(* C12: every accumulator the factory makes starts with its own zero-state *)
(* in-progress bar, and its state and the bars it emitted are a function   *)
(* of the events fed to it alone, whatever was fed to the other            *)
(* accumulator of the same factory, before or in between.                  *)

\* the heap of a fresh accumulator after the calls compute(evts[1]), ...,
\* compute(evts[n]) have run to their end
RECURSIVE Replay(_, _)
Replay(evts, n) ==
  IF n = 0 THEN _reset(<<EmptyObject>>)
  ELSE LET first == ComputeStart(Replay(evts, n - 1), evts[n])
           second == ComputeResume(first.pc, first.heap, evts[n])
       IN  IF first.pc = "idle" THEN first.heap
           ELSE IF second.pc = "idle" THEN second.heap
           ELSE ComputeResume(second.pc, second.heap, evts[n]).heap

\* the same, with the last call run up to the position p
ReplayTo(evts, p) ==
  IF p = "idle" THEN Replay(evts, Len(evts))
  ELSE LET first == ComputeStart(Replay(evts, Len(evts) - 1), evts[Len(evts)])
       IN  IF first.pc = p THEN first.heap
           ELSE ComputeResume(first.pc, first.heap, evts[Len(evts)]).heap

C13_InvalidConfigurationRejected ==
  Len(events) > 0 => (interval > 0 /\ kind \in BarKinds)

(* C14: for every emitted time bar, the bucket computation applied to the  *)
(* bar's boundary timestamp gives the bucket of its openTimestamp plus     *)
(* one: the boundary is the first instant of the next bucket.  (An         *)
(* interval of 0 has no bucket index.)                                     *)

C14_BoundaryIsNextBucket ==
  (kind = "time" /\ interval # 0) =>
    \A i \in 1..Len(emitted) :
      _getTimeBucket(Bar(i).timestamp, interval)
        = Finite(Floor(Bar(i).openTimestamp, interval) + 1)

\* a bar opened in the middle of a bucket was emitted
C14_Witness ==
  /\ kind = "time" /\ interval > 1
  /\ Len(emitted) >= 1
  /\ Bar(1).openTimestamp % interval # 0

\* C14 as the specification states it: the boundary timestamp falls in the
\* bucket the bar was accumulated in
C14_BoundaryIsSameBucket ==
  (kind = "time" /\ interval # 0) =>
    \A i \in 1..Len(emitted) :
      _getTimeBucket(Bar(i).timestamp, interval)
        = _getTimeBucket(Bar(i).openTimestamp, interval)

(* C15: a step of compute on a heartbeat (a book_change message) either    *)
(* leaves every bar as it is, the in-progress bar and its timestamp        *)
(* included, or emits the open bar with the open*, close*, deltaOi,        *)
(* predictedFundingRate and ticks it had and resets the in-progress bar;   *)
(* it never raises ticks.                                                  *)

\* the fields a tick writes
TickFields ==
  {"openLastPrice", "openOi", "openFundingRate", "openIndexPrice", "openMarkPrice",
   "openTimestamp", "closeLastPrice", "closeOi", "closeFundingRate", "closeIndexPrice",
   "closeMarkPrice", "closeTimestamp", "deltaOi", "predictedFundingRate", "ticks"}

\* the values _reset gives to the fields a tick writes and to timestamp
ZeroState(bar) ==
  /\ bar.ticks = 0
  /\ bar.deltaOi = 0
  /\ bar.openTimestamp = DATE_MIN
  /\ bar.closeTimestamp = DATE_MIN
  /\ bar.timestamp = DATE_MIN
  /\ bar.openLastPrice = Some(0)
  /\ \A f \in {"openOi", "openFundingRate", "openIndexPrice", "openMarkPrice",
               "closeLastPrice", "closeOi", "closeFundingRate", "closeIndexPrice",
               "closeMarkPrice", "predictedFundingRate"} : bar[f] = Undefined

HeartbeatStep ==
  /\ Len(events') > 0
  /\ IsHeartbeat(events'[Len(events')])

HeartbeatEffect ==
  /\ heap'[inProgressBar].ticks <= heap[inProgressBar].ticks
  /\ \/ /\ emitted' = emitted
        /\ heap' = heap
     \/ /\ Len(emitted') = Len(emitted) + 1
        /\ InProgress.ticks > 0
        /\ \A f \in TickFields : heap'[emitted'[Len(emitted')]][f] = InProgress[f]
        /\ ZeroState(heap'[inProgressBar])
        /\ Len(heap') = Len(heap) + 1
        /\ \A r \in 2..Len(heap) : heap'[r] = heap[r]

C15_HeartbeatNeverUpdates == [][HeartbeatStep => HeartbeatEffect]_vars

\* a heartbeat found a bar open and left it open, and the next heartbeat closed it
C15_Witness ==
  /\ kind = "time"
  /\ Len(events) = 3
  /\ IsTick(events[1]) /\ IsHeartbeat(events[2]) /\ IsHeartbeat(events[3])
  /\ emittedAt = <<3>>
  /\ Bar(1).ticks = 1
  /\ InProgress.ticks = 0

(* C16: time kind: when a tick closes the open bar, the bar is emitted     *)
(* before the tick is folded: its ticks count and close* fields are those  *)
(* of the ticks fed before that call, the in-progress bar is in its zero   *)
(* state while the bar is handed out, and when the call has ended the bar  *)
(* that tick opened has its openTimestamp and open* fields, with           *)
(* ticks = 1 right at the end of the call.                                 *)

\* the fields the first tick of a bar gives it, by the field of the tick
OpenFields ==
  [openLastPrice |-> "lastPrice", openOi |-> "openInterest",
   openFundingRate |-> "fundingRate", openIndexPrice |-> "indexPrice",
   openMarkPrice |-> "markPrice"]

\* the fields the last tick of a bar gives it, by the field of the tick
CloseFields ==
  [closeLastPrice |-> "lastPrice", closeOi |-> "openInterest",
   closeFundingRate |-> "fundingRate", closeIndexPrice |-> "indexPrice",
   closeMarkPrice |-> "markPrice", predictedFundingRate |-> "predictedFundingRate"]

OpenedBy(bar, tick) ==
  /\ bar.openTimestamp = tick.timestamp
  /\ \A f \in DOMAIN OpenFields : bar[f] = tick[OpenFields[f]]

ClosedBy(bar, tick) ==
  /\ bar.closeTimestamp = tick.timestamp
  /\ \A f \in DOMAIN CloseFields : bar[f] = tick[CloseFields[f]]

C16_EmittedBeforeFolded ==
  kind = "time" =>
    \A i \in 1..Len(emitted) :
      IsTick(Trigger(i)) =>
        /\ Bar(i).ticks = Cardinality(TimeFolded(i))
        /\ ClosedBy(Bar(i), events[Max(TimeFolded(i))])
        /\ (emittedAt[i] = Len(events) /\ pc # "idle") => InProgress.ticks = 0
        /\ (emittedAt[i] = Len(events) /\ pc = "idle") =>
             /\ InProgress.ticks = 1
             /\ OpenedBy(InProgress, Trigger(i))
        /\ emittedAt[i] < Len(events) =>
             OpenedBy(IF i < Len(emitted) THEN Bar(i + 1) ELSE InProgress, Trigger(i))

\* a bar of two ticks was closed by a third tick, with other prices, whose call has ended
C16_Witness ==
  /\ kind = "time"
  /\ pc = "idle"
  /\ emittedAt = <<3>>
  /\ IsTick(events[3])
  /\ Bar(1).ticks = 2
  /\ events[3].lastPrice # events[2].lastPrice
  /\ InProgress.ticks = 1

(* C17: every emitted bar has the openTimestamp and open* fields of the    *)
(* first tick folded into it since the reset before it, and the            *)
(* closeTimestamp, close* fields and predictedFundingRate of the last      *)
(* one; the same holds of the bar in progress after every tick, so ticks   *)
(* after the first leave the open* fields alone.                           *)

C17_OpenFirstCloseLast ==
  /\ \A i \in 1..Len(emitted) :
       /\ Folded(i) # {}
       /\ OpenedBy(Bar(i), events[Min(Folded(i))])
       /\ ClosedBy(Bar(i), events[Max(Folded(i))])
  /\ FoldedNow # {} =>
       /\ OpenedBy(InProgress, events[Min(FoldedNow)])
       /\ ClosedBy(InProgress, events[Max(FoldedNow)])

\* an emitted bar of three ticks whose first tick differs from the second in time and
\* from the last in time and prices
C17_Witness ==
  /\ Len(emitted) = 1
  /\ Bar(1).ticks = 3
  /\ Bar(1).openTimestamp # Bar(1).closeTimestamp
  /\ Bar(1).openLastPrice # Bar(1).closeLastPrice
  /\ events[2].timestamp # events[1].timestamp

(* C18: in every state, the bar in progress and every emitted bar have     *)
(* deltaOi = closeOi - openOi, an undefined open interest counting as 0;   *)
(* deltaOi is 0 while ticks = 0 and after the first tick of a bar.         *)

DeltaOiIsCloseMinusOpen(bar) ==
  bar.deltaOi = (IF bar.closeOi = Undefined THEN 0 ELSE bar.closeOi[1])
                  - (IF bar.openOi = Undefined THEN 0 ELSE bar.openOi[1])

C18_DeltaOiIsCloseMinusOpen ==
  /\ DeltaOiIsCloseMinusOpen(InProgress)
  /\ InProgress.ticks \in {0, 1} => InProgress.deltaOi = 0
  /\ \A i \in 1..Len(emitted) :
       /\ DeltaOiIsCloseMinusOpen(Bar(i))
       /\ Bar(i).ticks = 1 => Bar(i).deltaOi = 0

\* a bar was emitted with a rise of open interest, and the bar in progress holds one tick
\* with a defined open interest
C18_Witness ==
  /\ Len(emitted) = 1
  /\ Bar(1).deltaOi > 0
  /\ InProgress.ticks = 1
  /\ InProgress.openOi # Undefined

(* C19: when a compute call has ended, the ticks counts of the emitted     *)
(* bars and of the bar in progress add up to the number of derivative      *)
(* tickers fed so far; heartbeats are counted nowhere.  While a bar closed *)
(* by the first test is handed out, the ticker of that call is not yet     *)
(* counted.                                                                *)

\* the ticks counts of the first n emitted bars, added up
RECURSIVE EmittedTicks(_)
EmittedTicks(n) == IF n = 0 THEN 0 ELSE Bar(n).ticks + EmittedTicks(n - 1)

\* the derivative tickers fed and folded so far
TicksConsumed ==
  Cardinality(TickCalls(1, Len(events)))
    - (IF pc = "yield1" /\ IsTick(message) THEN 1 ELSE 0)

C19_TickConservation ==
  EmittedTicks(Len(emitted)) + InProgress.ticks = TicksConsumed

\* a bar was emitted, a heartbeat was fed, and the bar in progress holds a tick
C19_Witness ==
  /\ pc = "idle"
  /\ Len(emitted) = 1
  /\ Bar(1).ticks = 1
  /\ InProgress.ticks = 1
  /\ \E j \in 1..Len(events) : IsHeartbeat(events[j])

(* C20: volume and tick kinds with interval > 0: whenever no compute call  *)
(* is running the bar in progress is below its threshold (deltaOi <        *)
(* interval, ticks < interval), so the test made before the update never   *)
(* closes a bar, and a heartbeat yields no bar and changes nothing.        *)

CountKind == kind \in {"volume", "tick"} /\ interval > 0

BelowThreshold ==
  IF kind = "volume" THEN InProgress.deltaOi < interval ELSE InProgress.ticks < interval

C20_CountKindsCloseAtOnce ==
  /\ [](CountKind =>
          /\ pc # "yield1"
          /\ pc = "idle" => BelowThreshold
          /\ \A c \in 1..Len(events) : IsHeartbeat(events[c]) => BarsOfCall(c) = {})
  /\ [][(CountKind /\ HeartbeatStep) =>
          (heap' = heap /\ emitted' = emitted /\ pc' = "idle")]_vars

\* a heartbeat was fed to a tick accumulator that held one tick of the two it needs, and
\* the next tick closed the bar
C20_Witness ==
  /\ kind = "tick" /\ interval = 2
  /\ Len(events) = 3
  /\ IsHeartbeat(events[2])
  /\ emittedAt = <<3>>
  /\ Bar(1).ticks = 2

====
